---- MODULE Spec2Model ----
(***************************************************************************)
(* A model of slp_validate: the version gate (utils.rs), the record        *)
(* decoders (frame.rs, preframe.rs, postframe.rs, itemframe.rs,            *)
(* game_start.rs), the event-size table decoder and the driver loop with   *)
(* its event-ordering matcher (parse.rs).                                  *)
(*                                                                         *)
(* A file is a byte buffer.  The model keeps the lengths the code compares *)
(* (file length, bytes remaining in the stream, raw_length, pos) as        *)
(* numbers and draws the content of each field from a small set at the     *)
(* moment the code reads it.  A Rust panic (Bytes::get_* / slice / advance *)
(* past the end, Option::unwrap on None, an index out of range, an         *)
(* arithmetic overflow in a build with overflow checks) ends the process:  *)
(* pc = "crashed", with the reason in fault.  An Err returned by           *)
(* validate_game is logged by parse(): pc = "failed".                      *)
(***************************************************************************)
EXTENDS Integers, Sequences, FiniteSets, TLC

VARIABLES
    pc,               \* where validate_game is: "header", "sizes", "start", "loop", "done", "failed", "crashed"
    fileLen,          \* file_data.len()
    remaining,        \* stream.len()
    raw_length,       \* raw_length (u32 from the envelope + 15)
    pos,              \* pos
    frame_count,      \* frame_count (expected frames, from the metadata)
    event_sizes,      \* event_sizes: EventType -> declared payload size, NoEntry when absent
    version,          \* version read by GameStart::parse
    players,          \* players: [Player; 4], here the type and character of each slot
    event_order,      \* event_order: Vec<Expected>
    order_idx,        \* order_idx
    need_sync,        \* need_sync
    actual_frames,    \* actual_frames
    fstart_frame_idx, \* fstart.frame_idx
    event,            \* event (the EventType of the last code read)
    game_end,         \* game_end.is_some()
    logs,             \* the log lines the last step emitted
    ev,               \* the event the last loop iteration read (its code and the fields the matcher uses)
    fault,            \* why the process panicked, "none" otherwise
    ovf,              \* TRUE: the build checks integer overflow (debug), FALSE: it wraps (release)
    wf,               \* while the events read so far are a run of well-formed frame cycles: how many slots of
                      \* those cycles they cover (an absent companion post-record covers its slot); -1 otherwise
    gap,              \* how many companion post-records that run has left out
    hist,             \* of the file being validated: the lastFrame of its metadata, the start-markers read,
                      \* whether a duplicate-match-end warning was logged, the code at pos when the loop
                      \* ended, whether the event before the last one was an end-marker
    batch,            \* parse(): the number of files of the batch, the index of the one being validated,
                      \* and whether the previous one failed on the length byte of its size table
    fnIn,             \* the arguments of the call of a pure function
    fnOut             \* its result

vars == <<pc, fileLen, remaining, raw_length, pos, frame_count, event_sizes, version,
          players, event_order, order_idx, need_sync, actual_frames, fstart_frame_idx,
          event, game_end, logs, ev, fault, ovf, wf, gap, hist, batch, fnIn, fnOut>>

driverVars == <<pc, fileLen, remaining, raw_length, pos, frame_count, event_sizes, version,
                players, event_order, order_idx, need_sync, actual_frames, fstart_frame_idx,
                event, game_end, logs, ev, fault, ovf, wf, gap, hist, batch>>

(***************************************************************************)
(* Integer widths.                                                         *)
(***************************************************************************)
MaxI32 == 2147483647
MinI32 == (-2147483647) - 1
MaxU8 == 255

(***************************************************************************)
(* utils.rs: Version and Version::at_least.  The derived Ord of a struct   *)
(* compares the fields in declaration order: major, minor, build.          *)
(***************************************************************************)
V(major, minor, build) == [major |-> major, minor |-> minor, build |-> build]

CmpU8(a, b) == IF a < b THEN -1 ELSE IF a > b THEN 1 ELSE 0

VersionCmp(v, w) ==
    IF CmpU8(v.major, w.major) # 0 THEN CmpU8(v.major, w.major)
    ELSE IF CmpU8(v.minor, w.minor) # 0 THEN CmpU8(v.minor, w.minor)
    ELSE CmpU8(v.build, w.build)

\* `>` where the code has `>=`
at_least_strict(v, major, minor, build) ==
    VersionCmp(v, V(major, minor, build)) > 0

at_least(v, major, minor, build) ==
    VersionCmp(v, V(major, minor, build)) >= 0

AtLeastV(v, g) == at_least(v, g.major, g.minor, g.build)

(***************************************************************************)
(* The record decoders: the bytes read before the first gate, and the      *)
(* gated reads in the order the code makes them, each with its threshold   *)
(* and the bytes it reads.                                                 *)
(***************************************************************************)
G(major, minor, build, n) == [g |-> V(major, minor, build), n |-> n]

\* frame.rs FrameStart::new: frame_idx i32, random seed u32, then frame_counter
FrameStartBase == 8
FrameStartGates == << G(3, 10, 0, 4) >>

\* frame.rs FrameEnd::new: frame_idx i32, then latest_finalized
FrameEndBase == 4
FrameEndGates == << G(3, 7, 0, 4) >>

\* preframe.rs PreFrame::new: the fields up to controller_r, then raw_stick_x, percent, raw_stick_y
PreFrameBase == 58
PreFrameGates == << G(1, 2, 0, 1), G(1, 4, 0, 4), G(3, 15, 0, 1) >>

\* postframe.rs PostFrame::new: the fields up to stocks, then state_frame .. instance_id
PostFrameBase == 33
\* hurtbox_state gated by 1.3.0 instead of 3.1.0
PostFrameGatesTypo ==
    << G(0, 2, 0, 4),
       G(2, 0, 0, 5), G(2, 0, 0, 4), G(2, 0, 0, 1), G(2, 0, 0, 2), G(2, 0, 0, 1), G(2, 0, 0, 1),
       G(1, 3, 0, 1),
       G(3, 5, 0, 8), G(3, 5, 0, 8), G(3, 5, 0, 4),
       G(3, 8, 0, 4), G(3, 11, 0, 4), G(3, 16, 0, 2), G(3, 16, 0, 2) >>

PostFrameGates ==
    << G(0, 2, 0, 4),
       G(2, 0, 0, 5), G(2, 0, 0, 4), G(2, 0, 0, 1), G(2, 0, 0, 2), G(2, 0, 0, 1), G(2, 0, 0, 1),
       G(3, 1, 0, 1),
       G(3, 5, 0, 8), G(3, 5, 0, 8), G(3, 5, 0, 4),
       G(3, 8, 0, 4), G(3, 11, 0, 4), G(3, 16, 0, 2), G(3, 16, 0, 2) >>

\* itemframe.rs ItemFrame::new: the fields up to spawn_id, then missile_type .. instance_id
ItemFrameBase == 37
ItemFrameGates ==
    << G(3, 2, 0, 1), G(3, 2, 0, 1), G(3, 2, 0, 1), G(3, 2, 0, 1), G(3, 6, 0, 1), G(3, 16, 0, 2) >>

\* game_start.rs GameStart::parse: the fields up to random_seed, then the cascade of
\* extras: ucf toggles, tag skip, pal, frozen stadium, minor scene + netplay,
\* display names + connect codes, slippi uid skip, language skip, match id + numbers
GameStartBase == 320
GameStartGates ==
    << G(1, 0, 0, 32), G(1, 3, 0, 64), G(1, 5, 0, 1), G(2, 0, 0, 1), G(3, 7, 0, 2),
       G(3, 9, 0, 164), G(3, 11, 0, 116), G(3, 12, 0, 1), G(3, 14, 0, 59) >>

RecordKinds == {"GameStart", "FrameStart", "FrameEnd", "PreFrame", "PostFrame", "Item"}

GatesOf(kind) ==
    CASE kind = "GameStart"  -> GameStartGates
      [] kind = "FrameStart" -> FrameStartGates
      [] kind = "FrameEnd"   -> FrameEndGates
      [] kind = "PreFrame"   -> PreFrameGates
      [] kind = "PostFrame"  -> PostFrameGates
      [] kind = "Item"       -> ItemFrameGates

BaseOf(kind) ==
    CASE kind = "GameStart"  -> GameStartBase
      [] kind = "FrameStart" -> FrameStartBase
      [] kind = "FrameEnd"   -> FrameEndBase
      [] kind = "PreFrame"   -> PreFrameBase
      [] kind = "PostFrame"  -> PostFrameBase
      [] kind = "Item"       -> ItemFrameBase

RECURSIVE SumBytes(_, _, _)
SumBytes(gates, present, i) ==
    IF i > Len(gates) THEN 0
    ELSE (IF present[i] THEN gates[i].n ELSE 0) + SumBytes(gates, present, i + 1)

\* `version.at_least(..).then(|| stream.get_*())`: every gate is evaluated on its own
ThenEach(gates, v) == [i \in 1..Len(gates) |-> AtLeastV(v, gates[i].g)]

\* `if !version.at_least(..) { return Ok(..) }`: the first failed gate ends the decode
RECURSIVE Cascade(_, _, _, _)
Cascade(gates, v, i, acc) ==
    IF i > Len(gates) THEN acc
    ELSE IF ~AtLeastV(v, gates[i].g) THEN acc \o [k \in 1..(Len(gates) - i + 1) |-> FALSE]
    ELSE Cascade(gates, v, i + 1, Append(acc, TRUE))

\* which optional reads a decoder makes under version v
Populated(kind, v) ==
    IF kind = "GameStart" THEN Cascade(GatesOf(kind), v, 1, << >>)
    ELSE ThenEach(GatesOf(kind), v)

\* the bytes a decoder reads from its window under version v
Consumed(kind, v) == BaseOf(kind) + SumBytes(GatesOf(kind), Populated(kind, v), 1)

(***************************************************************************)
(* parse.rs: EventType and the event-size table (get_event_sizes).         *)
(***************************************************************************)
EventTypes == {"EventPayloads", "GameStart", "PreFrame", "PostFrame", "GameEnd", "FrameStart",
               "Item", "FrameEnd", "GeckoList", "MessageSplitter", "None"}

\* EventType::from_repr: "Invalid" stands for the Option None it returns for any other byte
FromRepr(b) ==
    CASE b = 53 -> "EventPayloads"
      [] b = 54 -> "GameStart"
      [] b = 55 -> "PreFrame"
      [] b = 56 -> "PostFrame"
      [] b = 57 -> "GameEnd"
      [] b = 58 -> "FrameStart"
      [] b = 59 -> "Item"
      [] b = 60 -> "FrameEnd"
      [] b = 61 -> "GeckoList"
      [] b = 16 -> "MessageSplitter"
      [] b = 0  -> "None"
      [] OTHER  -> "Invalid"

\* `EventType::from_repr(code).unwrap_or_default()`
FromReprOrDefault(b) == IF FromRepr(b) = "Invalid" THEN "None" ELSE FromRepr(b)

\* a key the HashMap does not hold
NoEntry == -1

EmptyMap == [t \in EventTypes |-> NoEntry]

\* The bytes that follow the table-length byte, as triples (code, size): the
\* triples of head, then fill for ever.
TripAt(trip, i) == IF i <= Len(trip.head) THEN trip.head[i] ELSE trip.fill

\* `payloads_size - 1` on a u8: 0 - 1 panics in a build with overflow checks and
\* wraps to 255 in a build without
MinusOneOverflows(L, chk) == L = 0 /\ chk
PayloadsMinusOne(L) == IF L >= 1 THEN L - 1 ELSE MaxU8

\* `(0..m).step_by(3)` yields 0, 3, 6, ... below m
StepBy3Count(m) == (m + 2) \div 3

\* Triple i of the loop of get_event_sizes cannot be read: the stream ends
\* before its code byte, the code is no EventType (from_repr(..).unwrap()), or the
\* stream ends before its two size bytes.  avail: the bytes after the length byte.
TripleFault(trip, i, avail) ==
    IF avail < 3 * (i - 1) + 1 THEN "underflow"
    ELSE IF FromRepr(TripAt(trip, i)[1]) = "Invalid" THEN "unwrap"
    ELSE IF avail < 3 * i THEN "underflow"
    ELSE "none"

\* the map after n inserts: for each EventType the size of the last triple with
\* its code
InsertAll(trip, n) ==
    [t \in EventTypes |->
        LET at == {i \in 1..n : FromRepr(TripAt(trip, i)[1]) = t}
        IN  IF at = {} THEN NoEntry
            ELSE TripAt(trip, CHOOSE i \in at : \A j \in at : j <= i)[2]]

\* the loop of get_event_sizes over n triples
ReadTriples(trip, n, avail) ==
    LET bad == {i \in 1..n : TripleFault(trip, i, avail) # "none"}
    IN  IF bad = {}
        THEN [out |-> "ok", fault |-> "none", map |-> InsertAll(trip, n),
              used |-> 2 + 3 * n, ntriples |-> n]
        ELSE LET i == CHOOSE k \in bad : \A j \in bad : k <= j
             IN  [out |-> "panic", fault |-> TripleFault(trip, i, avail), map |-> EmptyMap,
                  used |-> 2 + 3 * (i - 1), ntriples |-> i - 1]

\* `(payloads_size - 1) % 3 == 0`
LengthValid(m) == m % 3 = 0

\* get_event_sizes on a stream of rem bytes that starts with the byte first, then
\* the length byte L, then trip
get_event_sizes(first, L, trip, rem, chk) ==
    IF rem < 1
    THEN [out |-> "panic", fault |-> "underflow", map |-> EmptyMap, used |-> 0, ntriples |-> 0]
    ELSE IF FromRepr(first) = "Invalid"
    THEN [out |-> "panic", fault |-> "unwrap", map |-> EmptyMap, used |-> 1, ntriples |-> 0]
    ELSE IF FromRepr(first) # "EventPayloads"
    THEN [out |-> "err", fault |-> "none", map |-> EmptyMap, used |-> 1, ntriples |-> 0]
    ELSE IF rem < 2
    THEN [out |-> "panic", fault |-> "underflow", map |-> EmptyMap, used |-> 1, ntriples |-> 0]
    ELSE IF MinusOneOverflows(L, chk)
    THEN [out |-> "panic", fault |-> "overflow", map |-> EmptyMap, used |-> 2, ntriples |-> 0]
    ELSE IF ~LengthValid(PayloadsMinusOne(L))
    THEN [out |-> "err", fault |-> "none", map |-> EmptyMap, used |-> 2, ntriples |-> 0]
    ELSE ReadTriples(trip, StepBy3Count(PayloadsMinusOne(L)), rem - 2)

(***************************************************************************)
(* game_start.rs / player.rs: the roster.                                  *)
(***************************************************************************)
Pl(t, c) == [player_type |-> t, character |-> c]

EmptySlot == Pl("Empty", "Fox")

\* `matches!(player.player_type, PlayerType::CPU | PlayerType::Human)`
IsActive(p) == p.player_type \in {"CPU", "Human"}

ActivePorts(ps) == {i \in 0..3 : IsActive(ps[i + 1])}

\* the number of human / CPU participants
ActiveCount(ps) == Cardinality(ActivePorts(ps))

\* the number of active participants where the code has the length of the array
PlayersLenActive(ps) == Cardinality({i \in 1..Len(ps) : IsActive(ps[i])})

\* `players.len()` of `players: [Player; 4]`
PlayersLen(ps) == Len(ps)

(***************************************************************************)
(* parse.rs: Expected and the construction of event_order.                 *)
(***************************************************************************)
Expected(port, nana, kind) == [port |-> port, nana |-> nana, kind |-> kind]

RECURSIVE PreSlots(_, _)
PreSlots(ps, i) ==
    IF i > Len(ps) THEN << >>
    ELSE (IF IsActive(ps[i])
          THEN << Expected(i - 1, FALSE, "PreFrame") >>
               \o (IF ps[i].character = "IceClimbers"
                   THEN << Expected(i - 1, TRUE, "PreFrame") >> ELSE << >>)
          ELSE << >>)
         \o PreSlots(ps, i + 1)

RECURSIVE PostSlots(_, _)
PostSlots(ps, i) ==
    IF i > Len(ps) THEN << >>
    ELSE (IF IsActive(ps[i])
          THEN << Expected(i - 1, FALSE, "PostFrame") >>
               \o (IF ps[i].character = "IceClimbers"
                   THEN << Expected(i - 1, FALSE, "PostFrame") >> ELSE << >>)
          ELSE << >>)
         \o PostSlots(ps, i + 1)

BuildEventOrder(ps) ==
    << Expected(0, FALSE, "FrameStart") >>
    \o PreSlots(ps, 1)
    \o << Expected(0, FALSE, "Item") >>
    \o PostSlots(ps, 1)
    \o << Expected(0, FALSE, "FrameEnd") >>

(***************************************************************************)
(* `x as usize` of an i64 x: x modulo 2^64.  The result is low when wraps  *)
(* is false and low + 2^64 when it is true.                                *)
(***************************************************************************)
AsUsize(x) == [wraps |-> x < 0, low |-> x]

\* the frame count is lastFrame plus the 123 frames before the timer starts
FrameCountFrom123(last) == AsUsize(last + 123)

\* `frame_count = (last + 124) as usize`
FrameCountOf(last) == AsUsize(last + 124)

(***************************************************************************)
(* i32 subtraction of two frame indices.                                   *)
(***************************************************************************)
SubOverflows(a, b) == (b < 0 /\ a > MaxI32 + b) \/ (b > 0 /\ a < MinI32 + b)

\* a - b modulo 2^32, as a signed 32-bit value
WrappingSub(a, b) ==
    IF ~SubOverflows(a, b) THEN a - b
    ELSE IF b < 0 THEN ((a - MaxI32) + (MinI32 - b)) - 1
    ELSE ((a - MinI32) + (MaxI32 - b)) + 1

(***************************************************************************)
(* parse.rs validate_game, the parse loop.  One iteration reads the event  *)
(* e: its code byte and, from the payload, the fields the code looks at.   *)
(*   e.code       the code byte                                            *)
(*   e.port       the port byte of a pre- or post-record                   *)
(*   e.nana       the companion flag of a pre- or post-record              *)
(*   e.frame_idx  the frame index of a start-marker                        *)
(*   e.known      the action-state lookup of a pre-record resolves         *)
(*   e.chr        the character byte of a post-record: "Nana", "Other" or  *)
(*                "Invalid" (no character has that internal id)            *)
(* The validators' warnings about the value of a field (an unresolved      *)
(* state, attack or item id, a number out of its range) change nothing the *)
(* loop reads; of them the model keeps the companion-flag warning of       *)
(* PostFrame::validate.                                                    *)
(* An iteration is computed on a record r of the loop's locals; a panic    *)
(* stops it with r.pc = "crashed" and the log lines emitted so far.        *)
(***************************************************************************)
Locals ==
    [pc |-> "loop", fault |-> "none", logs |-> {},
     order_idx |-> order_idx, need_sync |-> need_sync, actual_frames |-> actual_frames,
     fstart_frame_idx |-> fstart_frame_idx, game_end |-> game_end]

Panic(r, why) == [r EXCEPT !.pc = "crashed", !.fault = why]

Log(r, line) == [r EXCEPT !.logs = @ \cup {line}]

\* `event_order[i]`
SlotAt(i) == event_order[i + 1]
InRange(i) == i < Len(event_order)

\* the lookahead accepts the event and leaves the cursor at the companion slot
AfterSkipStay(i) == i

\* the cursor after the lookahead over a companion slot: `order_idx += 1`
AfterSkip(i) == i + 1

\* the cursor after a pre- or post-record: `order_idx += 1`
AfterRecord(i) == i + 1

\* the resynchronization of the start-marker arm leaves the cursor where it is
AfterResyncKeep(i) == i

\* the cursor after the resynchronization of the start-marker arm: `order_idx = 0`
AfterResync(i) == 0

\* the end-marker arm leaves the cursor where the comparison left it
AfterFrameEndKeep(i) == i

\* the cursor after an end-marker: `order_idx = 0`
AfterFrameEnd(i) == 0

\* The comparison the PreFrame, PostFrame, FrameEnd and Item arms share: the slot at
\* the cursor against the observed key, the one-slot lookahead over a companion slot,
\* and the resynchronization flag.
Match(r, got) ==
    IF ~InRange(r.order_idx) THEN Panic(r, "index")
    ELSE IF SlotAt(r.order_idx) # got /\ SlotAt(r.order_idx).nana /\ ~InRange(r.order_idx + 1)
    THEN Panic(r, "index")
    ELSE
        LET exp_event == SlotAt(r.order_idx)
            skip == exp_event # got /\ exp_event.nana /\ SlotAt(r.order_idx + 1) = got
            not_exp == exp_event # got /\ ~skip
            flag == ~r.need_sync /\ not_exp /\ PlayersLen(players) = 2
        IN  [r EXCEPT !.order_idx = IF skip THEN AfterSkip(@) ELSE @,
                      !.need_sync = IF flag THEN TRUE ELSE @,
                      !.logs = IF flag THEN @ \cup {"err_order"} ELSE @]

\* EventType::FrameStart arm
FrameStartArm(r0, e, size) ==
    LET old_frame == r0.fstart_frame_idx
        r1 == [r0 EXCEPT !.actual_frames = @ + 1]
    IN
    IF Consumed("FrameStart", version) > size THEN Panic(r1, "underflow")
    ELSE IF ~InRange(r1.order_idx) THEN Panic([r1 EXCEPT !.fstart_frame_idx = e.frame_idx], "index")
    ELSE
    LET exp_event == SlotAt(r1.order_idx)
        resync == r1.need_sync \/ (exp_event.kind # "FrameStart" /\ ~exp_event.nana)
        overflow == SubOverflows(e.frame_idx, old_frame) /\ ovf
        delta == WrappingSub(e.frame_idx, old_frame)
    IN  [r1 EXCEPT
            !.fstart_frame_idx = e.frame_idx,
            !.pc = IF overflow THEN "crashed" ELSE @,
            !.fault = IF overflow THEN "overflow" ELSE @,
            !.logs = @ \cup (IF resync THEN {"err_order"} ELSE {})
                       \cup (IF ~overflow /\ (delta > 1 \/ delta < -10) THEN {"err_frame"} ELSE {})
                       \cup (IF ~overflow /\ e.frame_idx < old_frame THEN {"debug_rollback"} ELSE {}),
            !.order_idx = IF overflow THEN (IF resync THEN AfterResync(@) ELSE @)
                          ELSE (IF resync THEN AfterResync(@) ELSE @) + 1,
            !.need_sync = IF resync THEN FALSE ELSE @]

\* the character of participant `port`
CharacterOf(port) == players[port + 1].character

\* PreFrame::new on a window long enough: which u16 of the window the counterpart
\* lookup is made with (0: there is no such lookup, 1: the action-state code at
\* offset 10, 2: the u16 after it), the offset of the position field, and the bytes
\* read.  The counterpart lookup
\* is made for Zelda when the lookup of the state code does not resolve.
PreFrameNew(character, known, v) ==
    LET again == ~known /\ character = "Zelda"
        extra == IF again THEN 2 ELSE 0
    IN  [counterpart |-> IF again THEN 2 ELSE 0,
         position_at |-> 12 + extra,
         used |-> Consumed("PreFrame", v) + extra]

\* PreFrame::new, then the EventType::PreFrame arm
PreFrameArm(r0, e, size) ==
    IF size < 6 THEN Panic(r0, "underflow")
    ELSE IF e.port > 3 THEN Panic(r0, "index")
    ELSE
    LET character == CharacterOf(e.port)
        r1 == IF character # "IceClimbers" /\ e.nana THEN Log(r0, "err_nana_pre") ELSE r0
        need == PreFrameNew(character, e.known, version).used
    IN
    IF need > size THEN Panic(r1, "underflow")
    ELSE
    LET r3 == Match(r1, Expected(e.port, e.nana, "PreFrame"))
    IN  IF r3.pc = "crashed" THEN r3 ELSE [r3 EXCEPT !.order_idx = AfterRecord(@)]

\* PostFrame::new with PostFrame::validate, then the EventType::PostFrame arm
PostFrameArm(r0, e, size) ==
    IF Consumed("PostFrame", version) > size THEN Panic(r0, "underflow")
    ELSE IF e.chr = "Invalid" THEN Panic(r0, "unwrap")
    ELSE
    LET r2 == IF e.nana /\ e.chr # "Nana" THEN Log(r0, "warn_nana_post") ELSE r0
    IN
    IF e.port > 3 THEN Panic(r2, "unwrap")
    ELSE
    LET r3 == Match(r2, Expected(e.port, e.nana, "PostFrame"))
    IN  IF r3.pc = "crashed" THEN r3 ELSE [r3 EXCEPT !.order_idx = AfterRecord(@)]

\* FrameEnd::new, then the EventType::FrameEnd arm
FrameEndArm(r0, e, size) ==
    IF Consumed("FrameEnd", version) > size THEN Panic(r0, "underflow")
    ELSE
    LET r1 == Match(r0, Expected(0, FALSE, "FrameEnd"))
    IN  IF r1.pc = "crashed" THEN r1 ELSE [r1 EXCEPT !.order_idx = AfterFrameEnd(@)]

\* the item arm moves the cursor on as the arms of the records do
ItemArmAdvance(r0, e, size) ==
    IF Consumed("Item", version) > size THEN Panic(r0, "underflow")
    ELSE
    LET r1 == Match(r0, Expected(0, FALSE, "Item"))
    IN  IF r1.pc = "crashed" THEN r1 ELSE [r1 EXCEPT !.order_idx = AfterRecord(@)]

\* ItemFrame::new with ItemFrame::validate, then the EventType::Item arm
ItemArm(r0, e, size) ==
    IF Consumed("Item", version) > size THEN Panic(r0, "underflow")
    ELSE
    Match(r0, Expected(0, FALSE, "Item"))

\* EventType::GameEnd arm
GameEndArm(r0, e, size) ==
    LET r1 == IF r0.game_end THEN Log(r0, "warn_dup_game_end") ELSE r0
    IN  [r1 EXCEPT !.game_end = TRUE]

\* the stream is advanced by the bytes the decoder of the event consumed
AdvanceLenRead(evt) ==
    IF evt \in RecordKinds THEN Consumed(evt, version) ELSE event_sizes[evt]

\* `stream.advance(event_sizes[&event] as usize)`
AdvanceLen(evt) == event_sizes[evt]

\* the body of the loop: the code byte, the size lookup, the arm
Iteration(e) ==
    LET evt == FromReprOrDefault(e.code)
        r0 == IF evt = "None" THEN Log(Locals, "warn_unknown_event") ELSE Locals
        size == event_sizes[evt]
    IN
    IF size = NoEntry THEN Panic(r0, "missing_key")
    ELSE IF size > remaining - 1 THEN Panic(r0, "underflow")
    ELSE CASE evt = "FrameStart" -> FrameStartArm(r0, e, size)
           [] evt = "PreFrame"   -> PreFrameArm(r0, e, size)
           [] evt = "PostFrame"  -> PostFrameArm(r0, e, size)
           [] evt = "FrameEnd"   -> FrameEndArm(r0, e, size)
           [] evt = "Item"       -> ItemArm(r0, e, size)
           [] evt = "GameEnd"    -> GameEndArm(r0, e, size)
           [] OTHER              -> r0

(***************************************************************************)
(* The inputs the model draws from.                                        *)
(***************************************************************************)
\* declared payload size of the per-frame events in the uniform size table
PayloadSize == 84
\* declared payload size of the match-start event
GameStartSize == 760
\* most loop events a file of the full driver holds
MaxFileEvents == 2
\* most loop events of the stream the ordering matcher is run on
MaxLoopEvents == 7

\* sizes for every EventType, code 0x00 included
FullHead ==
    << <<54, GameStartSize>>, <<55, PayloadSize>>, <<56, PayloadSize>>, <<57, PayloadSize>>,
       <<58, PayloadSize>>, <<59, PayloadSize>>, <<60, PayloadSize>>, <<61, PayloadSize>>,
       <<16, PayloadSize>>, <<0, PayloadSize>> >>

\* a table without GeckoList, MessageSplitter and 0x00, whose post-record size is
\* that of a 2.0.0 file
LeanHead ==
    << <<54, GameStartSize>>, <<55, PayloadSize>>, <<56, 51>>, <<57, PayloadSize>>,
       <<58, PayloadSize>>, <<59, PayloadSize>>, <<60, PayloadSize>> >>

Trip(head, fill) == [head |-> head, fill |-> fill]

\* the table-length byte and the triples that follow it: the two tables, a length
\* that is no multiple of three plus one, a table that names a code that is no
\* EventType, a table without the match-start event, and a table whose match-start
\* size is one byte short of what a 2.0.0 match-start holds
TableInputs ==
    { [L |-> 31, trip |-> Trip(FullHead, <<61, PayloadSize>>)],
      [L |-> 22, trip |-> Trip(LeanHead, <<61, PayloadSize>>)],
      [L |-> 5,  trip |-> Trip(FullHead, <<61, PayloadSize>>)],
      [L |-> 4,  trip |-> Trip(<< <<62, 1>> >>, <<61, PayloadSize>>)],
      [L |-> 4,  trip |-> Trip(<< <<55, PayloadSize>> >>, <<61, PayloadSize>>)],
      [L |-> 4,  trip |-> Trip(<< <<54, 417>> >>, <<61, PayloadSize>>)] }

FirstBytes == {53, 54, 62}

MainVersions == {V(2, 0, 0), V(3, 16, 0)}

Rosters ==
    { << Pl("Human", "Fox"), Pl("Human", "Fox"), EmptySlot, EmptySlot >>,
      << Pl("Human", "Fox"), EmptySlot, Pl("CPU", "Zelda"), EmptySlot >>,
      << Pl("Human", "IceClimbers"), Pl("Human", "Fox"), EmptySlot, EmptySlot >>,
      << Pl("Demo", "Fox"), Pl("Human", "Fox"), EmptySlot, Pl("CPU", "IceClimbers") >>,
      << Pl("Human", "Fox"), Pl("Human", "Fox"), Pl("Human", "Fox"), EmptySlot >> }

\* the rosters of the files of the full driver
MainRosters ==
    { << Pl("Human", "Fox"), Pl("Human", "Fox"), EmptySlot, EmptySlot >>,
      << Pl("Human", "IceClimbers"), Pl("Human", "Fox"), EmptySlot, EmptySlot >> }

\* frame indices of start-markers: the two ends of i32 and the indices around -123
\* that give the deltas -11, -10, -1, 0, 1, 2
FrameIdxs == {MinI32, -134, -133, -123, -122, -121, MaxI32}

\* the frame indices of the first cycles of a match
CycleFrameIdxs == {-123, -122}

\* the bytes before the event stream: the 11-byte signature and the u32 length
EnvelopeLen == 15
\* the 11 bytes of the signature, and of the metadata key
MarkerLen == 11

\* where the loop starts after the full table (31 bytes of table with its code byte,
\* the match-start code byte and payload)
LoopStartFull == EnvelopeLen + 1 + 31 + 1 + GameStartSize
EventStride == 1 + PayloadSize

\* where the event stream of a file of the full driver ends
StreamEnd == LoopStartFull + EventStride * MaxFileEvents

\* the events of a file that holds one frame cycle of two participants and the
\* match-end
MinimalEvents == 7

\* where the event stream of that file ends
MinimalEnd == LoopStartFull + EventStride * MinimalEvents

\* raw_length: the end of the last event, or 40 bytes before it
RawLengths == {StreamEnd - 40, StreamEnd, MinimalEnd}

\* file lengths: shorter than the signature, than the length field, than the
\* envelope; ending 5 and 16 bytes after the earlier raw_length; a whole file
FileLens == {0, 5, 13, StreamEnd - 35, StreamEnd - 24, StreamEnd + 200}

\* lastFrame of the metadata: absent, or its value
LastFrameInputs == { << >>, << -123 >>, << -200 >> }

\* ubjson::to_map returns the map or an error
UbjsonOutcomes == {"ok", "err"}

Ev(code, port, nana, frame_idx, known, chr) ==
    [code |-> code, port |-> port, nana |-> nana, frame_idx |-> frame_idx,
     known |-> known, chr |-> chr]

NoEvent == [code |-> -1, port |-> 0, nana |-> FALSE]

\* the part of an event the history variable ev keeps
Seen(e) == [code |-> e.code, port |-> e.port, nana |-> e.nana]

Idle == [op |-> "none"]

\* nothing read of the file yet
NoHist == [last |-> << >>, starts |-> 0, dup |-> FALSE, next |-> -1, prev_end |-> FALSE]

\* parse() on the path of a file: lines 30-36
OneFile == [total |-> 1, idx |-> 1, prevLenErr |-> FALSE]

(***************************************************************************)
(* The events of a well-formed frame cycle of a roster, as the recorder    *)
(* writes them: the start-marker; for each active participant in port      *)
(* order its pre-record, followed by the companion's when the character is *)
(* the companion-capable one; the post-records in the same pattern; the    *)
(* end-marker.  A companion's records carry the companion flag.  A run of  *)
(* cycles has the frame indices -123, -122, ...                            *)
(***************************************************************************)
Key(code, port, nana) == [code |-> code, port |-> port, nana |-> nana]

RECURSIVE RecordKeys(_, _, _)
RecordKeys(ps, i, code) ==
    IF i > Len(ps) THEN << >>
    ELSE (IF IsActive(ps[i])
          THEN << Key(code, i - 1, FALSE) >>
               \o (IF ps[i].character = "IceClimbers"
                   THEN << Key(code, i - 1, TRUE) >> ELSE << >>)
          ELSE << >>)
         \o RecordKeys(ps, i + 1, code)

CycleKeys(ps) ==
    << Key(58, 0, FALSE) >> \o RecordKeys(ps, 1, 55) \o RecordKeys(ps, 1, 56)
    \o << Key(60, 0, FALSE) >>

CycleLen(ps) == Len(CycleKeys(ps))

\* event e is what slot k (from 0) of a run of cycles holds
FitsSlot(ps, k, e) ==
    /\ Seen(e) = CycleKeys(ps)[(k % CycleLen(ps)) + 1]
    /\ e.code = 58 => e.frame_idx = -123 + (k \div CycleLen(ps))

IsCompanionPost(ps, k) ==
    LET key == CycleKeys(ps)[(k % CycleLen(ps)) + 1]
    IN  key.code = 56 /\ key.nana

\* the slots covered once e is read after k slots: k + 1 when e is slot k, k + 2
\* when slot k is a companion post-record left out and e is slot k + 1, -1 when
\* e continues no well-formed run
Covered(ps, k, e) ==
    IF FitsSlot(ps, k, e) THEN k + 1
    ELSE IF IsCompanionPost(ps, k) /\ FitsSlot(ps, k + 1, e) THEN k + 2
    ELSE -1

NonCompanion1v1(ps) ==
    /\ ActiveCount(ps) = 2
    /\ \A i \in ActivePorts(ps) : ps[i + 1].character # "IceClimbers"

(***************************************************************************)
(* validate_game up to the loop.                                           *)
(***************************************************************************)
Stop(how, why, lines) ==
    /\ pc' = how
    /\ fault' = why
    /\ logs' = lines

\* lines 146-187: the signature, raw_length, the metadata block
ReadHeader ==
    /\ pc = "header"
    /\ \E sigOK \in BOOLEAN, rl \in RawLengths, metaOK \in BOOLEAN,
          ubj \in UbjsonOutcomes, last \in LastFrameInputs :
        /\ IF fileLen < MarkerLen
           THEN Stop("crashed", "underflow", {}) /\ UNCHANGED <<remaining, raw_length, frame_count>>
           ELSE IF ~sigOK
           THEN Stop("failed", "none", {"err_parsing"}) /\ UNCHANGED <<remaining, raw_length, frame_count>>
           ELSE IF fileLen - MarkerLen < 4
           THEN Stop("crashed", "underflow", {})
                /\ remaining' = fileLen - MarkerLen /\ UNCHANGED <<raw_length, frame_count>>
           ELSE IF rl > fileLen \/ fileLen - rl < MarkerLen
           THEN Stop("crashed", "underflow", {})
                /\ remaining' = fileLen - EnvelopeLen /\ raw_length' = rl /\ UNCHANGED frame_count
           ELSE IF ~metaOK \/ ubj = "err"
           THEN Stop("failed", "none", {"err_parsing"})
                /\ remaining' = fileLen - EnvelopeLen /\ raw_length' = rl /\ UNCHANGED frame_count
           ELSE /\ Stop("sizes", "none", {})
                /\ remaining' = fileLen - EnvelopeLen
                /\ raw_length' = rl
                /\ frame_count' = IF last = << >> THEN AsUsize(0) ELSE FrameCountOf(last[1])
        /\ hist' = IF pc' = "sizes" THEN [hist EXCEPT !.last = last] ELSE hist
    /\ UNCHANGED <<fileLen, pos, event_sizes, version, players, event_order, order_idx,
                   need_sync, actual_frames, fstart_frame_idx, event, game_end,
                   ev, ovf, wf, gap, batch, fnIn, fnOut>>

\* line 189: get_event_sizes
ReadEventSizes ==
    /\ pc = "sizes"
    /\ \E first \in FirstBytes, t \in TableInputs :
        LET res == get_event_sizes(first, t.L, t.trip, remaining, ovf)
        IN  /\ pc' = CASE res.out = "ok" -> "start"
                       [] res.out = "err" -> "failed"
                       [] OTHER -> "crashed"
            /\ fault' = res.fault
            /\ logs' = IF res.out = "err" THEN {"err_parsing"} ELSE {}
            /\ event_sizes' = res.map
            /\ remaining' = remaining - res.used
    /\ UNCHANGED <<fileLen, raw_length, pos, frame_count, version, players, event_order,
                   order_idx, need_sync, actual_frames, fstart_frame_idx, event,
                   game_end, ev, ovf, wf, gap, hist, batch, fnIn, fnOut>>

\* lines 191-270: the match-start code byte, GameStart::parse, the loop's locals and
\* event_order.  enumsOK: the stage, controller-fix and match-id bytes decode
\* (StageID / ControllerFix::from_repr(..).unwrap(), String::from_utf8(..).unwrap()).
ReadGameStart ==
    /\ pc = "start"
    /\ \E codeOK \in BOOLEAN, v \in MainVersions, ps \in MainRosters, enumsOK \in BOOLEAN :
        LET size == event_sizes["GameStart"]
            stay == UNCHANGED <<version, players, event_order, pos>>
        IN
        IF remaining < 1
        THEN Stop("crashed", "underflow", {}) /\ stay /\ UNCHANGED remaining
        ELSE IF ~codeOK
        THEN Stop("failed", "none", {"err_parsing"}) /\ stay /\ UNCHANGED remaining
        ELSE IF size = NoEntry
        THEN Stop("crashed", "missing_key", {}) /\ stay /\ remaining' = remaining - 1
        ELSE IF size > remaining - 1 \/ size < 20
        THEN Stop("crashed", "underflow", {}) /\ stay /\ remaining' = remaining - 1
        ELSE IF ~enumsOK
        THEN Stop("crashed", "unwrap", {}) /\ stay /\ remaining' = remaining - 1 - size
        ELSE IF Consumed("GameStart", v) > size
        THEN Stop("crashed", "underflow", {}) /\ stay /\ remaining' = remaining - 1 - size
        ELSE /\ Stop("loop", "none", {"info_version"})
             /\ remaining' = remaining - 1 - size
             /\ version' = v
             /\ players' = ps
             /\ event_order' = BuildEventOrder(ps)
             /\ pos' = fileLen - (remaining - 1 - size)
    /\ order_idx' = 0
    /\ need_sync' = FALSE
    /\ actual_frames' = 0
    /\ fstart_frame_idx' = -123
    /\ event' = "None"
    /\ game_end' = FALSE
    /\ UNCHANGED <<fileLen, raw_length, frame_count, event_sizes, ev, ovf, wf, gap,
                   hist, batch, fnIn, fnOut>>

(***************************************************************************)
(* The loop: one action per arm.                                           *)
(***************************************************************************)
Observe(e) ==
    /\ pc = "loop"
    /\ pos < raw_length /\ event # "GameEnd" /\ remaining > 0
    /\ \E r \in {Iteration(e)} :
        LET left == IF r.pc = "crashed" THEN remaining - 1
                    ELSE remaining - 1 - AdvanceLen(FromReprOrDefault(e.code))
        IN  /\ pc' = r.pc
            /\ fault' = r.fault
            /\ logs' = r.logs
            /\ order_idx' = r.order_idx
            /\ need_sync' = r.need_sync
            /\ actual_frames' = r.actual_frames
            /\ fstart_frame_idx' = r.fstart_frame_idx
            /\ game_end' = r.game_end
            /\ remaining' = left
            /\ pos' = IF r.pc = "crashed" THEN pos ELSE fileLen - left
            /\ wf' = IF r.pc = "loop" /\ wf >= 0
                     THEN (IF e.code = 57 THEN wf ELSE Covered(players, wf, e))
                     ELSE -1
            /\ gap' = IF r.pc = "loop" /\ wf >= 0 /\ Covered(players, wf, e) = wf + 2
                      THEN gap + 1 ELSE gap
            /\ hist' = [hist EXCEPT
                           !.starts = IF r.pc = "loop" /\ e.code = 58 THEN @ + 1 ELSE @,
                           !.dup = @ \/ "warn_dup_game_end" \in r.logs,
                           !.prev_end = (event = "FrameEnd")]
    /\ event' = FromReprOrDefault(e.code)
    /\ ev' = Seen(e)
    /\ UNCHANGED <<fileLen, raw_length, frame_count, event_sizes, version, players,
                   event_order, ovf, batch, fnIn, fnOut>>

\* a start-marker of one of the first cycles
FrameStartEvent == \E f \in CycleFrameIdxs : Observe(Ev(58, 0, FALSE, f, TRUE, "Other"))

\* a start-marker with any frame index
FrameStartAny == \E f \in FrameIdxs : Observe(Ev(58, 0, FALSE, f, TRUE, "Other"))

PreFrameEvent ==
    \E p \in 0..4, n \in BOOLEAN, k \in BOOLEAN : Observe(Ev(55, p, n, 0, k, "Other"))

PostFrameEvent ==
    \E p \in 0..4, n \in BOOLEAN, c \in {"Nana", "Other", "Invalid"} :
        Observe(Ev(56, p, n, 0, TRUE, c))

ItemEvent == Observe(Ev(59, 0, FALSE, 0, TRUE, "Other"))

FrameEndEvent == Observe(Ev(60, 0, FALSE, 0, TRUE, "Other"))

GameEndEvent == Observe(Ev(57, 0, FALSE, 0, TRUE, "Other"))

\* a code the loop has no arm for: GeckoList, 0x00 (EventType::None), and 0x3E,
\* which is no EventType
OtherCodes == {61, 0, 62}
OtherEvent == \E c \in OtherCodes : Observe(Ev(c, 0, FALSE, 0, TRUE, "Other"))

\* lines 422-428: the loop condition fails, the summary line, Ok(()).  When the loop
\* leaves events of the stream unread, the code of the first of them is a match-end or
\* a start-marker.
Finish ==
    /\ pc = "loop"
    /\ ~(pos < raw_length /\ event # "GameEnd" /\ remaining > 0)
    /\ pc' = "done"
    /\ logs' = {"info_summary"}
    /\ \E c \in (IF pos < raw_length /\ remaining > 0 THEN {57, 58} ELSE {-1}) :
        hist' = [hist EXCEPT !.next = c]
    /\ UNCHANGED <<fileLen, remaining, raw_length, pos, frame_count, event_sizes, version,
                   players, event_order, order_idx, need_sync, actual_frames,
                   fstart_frame_idx, event, game_end, ev, fault, ovf, wf, gap,
                   batch, fnIn, fnOut>>

LoopArms ==
    \/ PreFrameEvent
    \/ PostFrameEvent
    \/ ItemEvent
    \/ FrameEndEvent
    \/ GameEndEvent
    \/ OtherEvent
    \/ Finish

NextLoop ==
    \/ FrameStartEvent
    \/ PreFrameEvent
    \/ PostFrameEvent
    \/ ItemEvent
    \/ FrameEndEvent
    \/ GameEndEvent
    \/ OtherEvent
    \/ Finish

(***************************************************************************)
(* Spec: validate_game on one file, from the first byte.                   *)
(***************************************************************************)
Init ==
    /\ pc = "header"
    /\ fileLen \in FileLens
    /\ remaining = fileLen
    /\ raw_length = 0
    /\ pos = 0
    /\ frame_count = AsUsize(0)
    /\ event_sizes = EmptyMap
    /\ version = V(0, 1, 0)
    /\ players = << EmptySlot, EmptySlot, EmptySlot, EmptySlot >>
    /\ event_order = << >>
    /\ order_idx = 0
    /\ need_sync = FALSE
    /\ actual_frames = 0
    /\ fstart_frame_idx = -123
    /\ event = "None"
    /\ game_end = FALSE
    /\ logs = {}
    /\ ev = NoEvent
    /\ fault = "none"
    /\ ovf \in BOOLEAN
    /\ wf = 0
    /\ gap = 0
    /\ hist = NoHist
    /\ batch = OneFile
    /\ fnIn = Idle
    /\ fnOut = Idle

Next ==
    \/ ReadHeader
    \/ ReadEventSizes
    \/ ReadGameStart
    \/ FrameStartAny
    \/ LoopArms

Spec == Init /\ [][Next]_vars

(***************************************************************************)
(* SpecMinimal: validate_game from the first byte of a file long enough    *)
(* for one frame cycle and the match-end, on the event streams that are a  *)
(* run of well-formed frame cycles followed by at most one event that      *)
(* continues no such run.                                                  *)
(***************************************************************************)
InitMinimal ==
    /\ pc = "header"
    /\ fileLen = MinimalEnd + MarkerLen + 20
    /\ remaining = fileLen
    /\ raw_length = 0
    /\ pos = 0
    /\ frame_count = AsUsize(0)
    /\ event_sizes = EmptyMap
    /\ version = V(0, 1, 0)
    /\ players = << EmptySlot, EmptySlot, EmptySlot, EmptySlot >>
    /\ event_order = << >>
    /\ order_idx = 0
    /\ need_sync = FALSE
    /\ actual_frames = 0
    /\ fstart_frame_idx = -123
    /\ event = "None"
    /\ game_end = FALSE
    /\ logs = {}
    /\ ev = NoEvent
    /\ fault = "none"
    /\ ovf \in BOOLEAN
    /\ wf = 0
    /\ gap = 0
    /\ hist = NoHist
    /\ batch = OneFile
    /\ fnIn = Idle
    /\ fnOut = Idle

NextMinimal ==
    \/ ReadHeader
    \/ ReadEventSizes
    \/ ReadGameStart
    \/ wf >= 0 /\ FrameStartAny
    \/ wf >= 0 /\ PreFrameEvent
    \/ wf >= 0 /\ PostFrameEvent
    \/ wf >= 0 /\ ItemEvent
    \/ wf >= 0 /\ FrameEndEvent
    \/ wf >= 0 /\ GameEndEvent
    \/ wf >= 0 /\ OtherEvent
    \/ Finish

SpecMinimal == InitMinimal /\ [][NextMinimal]_vars

(***************************************************************************)
(* SpecBatch: parse() on a directory of MaxFiles files.  validate_game     *)
(* returns to the loop over the files with Ok or Err; a panic ends the     *)
(* process.                                                                *)
(***************************************************************************)
MaxFiles == 2

\* file lengths of the files of a batch: one shorter than the envelope, a whole file
BatchFileLens == {13, StreamEnd + 200}

\* validate_game returned the length error of get_event_sizes: the code byte and the
\* length byte of the table are read, nothing after them
LengthErr ==
    /\ pc = "failed"
    /\ raw_length > 0
    /\ remaining = fileLen - EnvelopeLen - 2

\* lines 57-63: the next iteration of `for file in files`
NextFile ==
    /\ pc \in {"failed", "done"}
    /\ batch.idx < batch.total
    /\ batch' = [batch EXCEPT !.idx = @ + 1, !.prevLenErr = LengthErr]
    /\ pc' = "header"
    /\ fileLen' \in BatchFileLens
    /\ remaining' = fileLen'
    /\ raw_length' = 0
    /\ pos' = 0
    /\ frame_count' = AsUsize(0)
    /\ event_sizes' = EmptyMap
    /\ version' = V(0, 1, 0)
    /\ players' = << EmptySlot, EmptySlot, EmptySlot, EmptySlot >>
    /\ event_order' = << >>
    /\ order_idx' = 0
    /\ need_sync' = FALSE
    /\ actual_frames' = 0
    /\ fstart_frame_idx' = -123
    /\ event' = "None"
    /\ game_end' = FALSE
    /\ logs' = {"info_validating"}
    /\ ev' = NoEvent
    /\ fault' = "none"
    /\ wf' = 0
    /\ gap' = 0
    /\ hist' = NoHist
    /\ UNCHANGED <<ovf, fnIn, fnOut>>

InitBatch ==
    /\ pc = "header"
    /\ fileLen \in BatchFileLens
    /\ remaining = fileLen
    /\ raw_length = 0
    /\ pos = 0
    /\ frame_count = AsUsize(0)
    /\ event_sizes = EmptyMap
    /\ version = V(0, 1, 0)
    /\ players = << EmptySlot, EmptySlot, EmptySlot, EmptySlot >>
    /\ event_order = << >>
    /\ order_idx = 0
    /\ need_sync = FALSE
    /\ actual_frames = 0
    /\ fstart_frame_idx = -123
    /\ event = "None"
    /\ game_end = FALSE
    /\ logs = {"info_validating"}
    /\ ev = NoEvent
    /\ fault = "none"
    /\ ovf \in BOOLEAN
    /\ wf = 0
    /\ gap = 0
    /\ hist = NoHist
    /\ batch = [total |-> MaxFiles, idx |-> 1, prevLenErr |-> FALSE]
    /\ fnIn = Idle
    /\ fnOut = Idle

NextBatch ==
    \/ ReadHeader
    \/ ReadEventSizes
    \/ ReadGameStart
    \/ FrameStartAny
    \/ LoopArms
    \/ NextFile

SpecBatch == InitBatch /\ [][NextBatch]_vars

(***************************************************************************)
(* SpecLoop: the parse loop on the event stream of a 3.16.0 file with the  *)
(* full size table, from the state validate_game is in when it enters the  *)
(* loop, for every roster.  The start-markers carry the frame indices of   *)
(* the first cycles, on which no subtraction of the loop overflows, so the *)
(* two kinds of build take the same steps.                                 *)
(***************************************************************************)
LoopEntry(n) ==
    /\ pc = "loop"
    /\ fileLen = LoopStartFull + EventStride * n + MarkerLen + 2
    /\ remaining = fileLen - LoopStartFull
    /\ raw_length = LoopStartFull + EventStride * n
    /\ pos = LoopStartFull
    /\ frame_count = AsUsize(0)
    /\ event_sizes = get_event_sizes(53, 31, Trip(FullHead, <<61, PayloadSize>>), fileLen, ovf).map
    /\ version = V(3, 16, 0)
    /\ event_order = BuildEventOrder(players)
    /\ order_idx = 0
    /\ need_sync = FALSE
    /\ actual_frames = 0
    /\ fstart_frame_idx = -123
    /\ event = "None"
    /\ game_end = FALSE
    /\ logs = {"info_version"}
    /\ ev = NoEvent
    /\ fault = "none"
    /\ wf = 0
    /\ gap = 0
    /\ hist = NoHist
    /\ batch = OneFile
    /\ fnIn = Idle
    /\ fnOut = Idle

InitLoop ==
    /\ players \in Rosters
    /\ ovf = FALSE
    /\ LoopEntry(MaxLoopEvents)

SpecLoop == InitLoop /\ [][NextLoop]_vars

(***************************************************************************)
(* SpecRun: the same loop on longer streams, for a roster with one active  *)
(* participant and one with two: a stream holds more records than the      *)
(* expected order has slots.                                               *)
(***************************************************************************)
MaxRunEvents == 8

RunRosters ==
    { << Pl("Human", "Fox"), EmptySlot, EmptySlot, EmptySlot >>,
      << Pl("Human", "Fox"), Pl("Human", "Fox"), EmptySlot, EmptySlot >> }

InitRun ==
    /\ players \in RunRosters
    /\ ovf = FALSE
    /\ LoopEntry(MaxRunEvents)

SpecRun == InitRun /\ [][NextLoop]_vars

(***************************************************************************)
(* SpecFrames: the same loop for the first roster, with start-markers of   *)
(* any frame index.                                                        *)
(***************************************************************************)
MaxFrameEvents == 5

InitFrames ==
    /\ players = << Pl("Human", "Fox"), Pl("Human", "Fox"), EmptySlot, EmptySlot >>
    /\ ovf \in BOOLEAN
    /\ LoopEntry(MaxFrameEvents)

NextFrames ==
    \/ FrameStartAny
    \/ LoopArms

SpecFrames == InitFrames /\ [][NextFrames]_vars

(***************************************************************************)
(* SpecCycles: the same loop, for every roster and both kinds of build, on *)
(* the streams that are a run of well-formed frame cycles followed by at   *)
(* most one event that continues no such run.                              *)
(***************************************************************************)
MaxCycleEvents == 19

InitCycles ==
    /\ players \in Rosters
    /\ ovf \in BOOLEAN
    /\ LoopEntry(MaxCycleEvents)

NextCycles ==
    \/ wf >= 0 /\ FrameStartAny
    \/ wf >= 0 /\ PreFrameEvent
    \/ wf >= 0 /\ PostFrameEvent
    \/ wf >= 0 /\ ItemEvent
    \/ wf >= 0 /\ FrameEndEvent
    \/ wf >= 0 /\ GameEndEvent
    \/ wf >= 0 /\ OtherEvent
    \/ Finish

SpecCycles == InitCycles /\ [][NextCycles]_vars

(***************************************************************************)
(* The pure functions, each applied to arguments drawn from a bounded set: *)
(* fnIn holds the arguments of the call, fnOut its result.  The driver is  *)
(* not running.                                                            *)
(***************************************************************************)
DriverIdle ==
    /\ pc = "fn"
    /\ fileLen = 0
    /\ remaining = 0
    /\ raw_length = 0
    /\ pos = 0
    /\ frame_count = AsUsize(0)
    /\ event_sizes = EmptyMap
    /\ version = V(0, 1, 0)
    /\ players = << EmptySlot, EmptySlot, EmptySlot, EmptySlot >>
    /\ event_order = << >>
    /\ order_idx = 0
    /\ need_sync = FALSE
    /\ actual_frames = 0
    /\ fstart_frame_idx = -123
    /\ event = "None"
    /\ game_end = FALSE
    /\ logs = {}
    /\ ev = NoEvent
    /\ fault = "none"
    /\ ovf = FALSE
    /\ wf = 0
    /\ gap = 0
    /\ hist = NoHist
    /\ batch = OneFile

InitFn == DriverIdle /\ fnIn = Idle /\ fnOut = Idle

\* SpecVersion: Version::at_least on the pairs of three versions whose fields are
\* the least, a middle and the greatest byte
VersionBytes == {0, 1, MaxU8}
VersionInputs == {V(a, b, c) : a \in VersionBytes, b \in VersionBytes, c \in VersionBytes}

CallAtLeast ==
    /\ fnIn = Idle
    /\ \E v \in VersionInputs, w \in VersionInputs, u \in VersionInputs :
        /\ fnIn' = [op |-> "at_least", v |-> v, w |-> w, u |-> u]
        /\ fnOut' = [op |-> "at_least",
                     vw |-> at_least(v, w.major, w.minor, w.build),
                     wv |-> at_least(w, v.major, v.minor, v.build),
                     wu |-> at_least(w, u.major, u.minor, u.build),
                     vu |-> at_least(v, u.major, u.minor, u.build)]
    /\ UNCHANGED driverVars

SpecVersion == InitFn /\ [][CallAtLeast]_vars

\* SpecDecode: the optional reads of each record decoder, under the versions
\* 0.0.x .. 4.17.x
MaxMajor == 4
MaxMinor == 17
MaxBuild == 1
DecodeVersions == {V(a, b, c) : a \in 0..MaxMajor, b \in 0..MaxMinor, c \in 0..MaxBuild}

CallDecode ==
    /\ fnIn = Idle
    /\ \E kind \in RecordKinds, v \in DecodeVersions :
        /\ fnIn' = [op |-> "decode", kind |-> kind, v |-> v]
        /\ fnOut' = [op |-> "decode", present |-> Populated(kind, v),
                     used |-> Consumed(kind, v)]
    /\ UNCHANGED driverVars

SpecDecode == InitFn /\ [][CallDecode]_vars

\* SpecPreFrame: PreFrame::new for every version, for a participant that plays the
\* character with the alternate-form counterpart, the companion-capable one or
\* another, with an action-state code that resolves for that character or not
CharacterInputs == {"Fox", "Zelda", "IceClimbers"}

CallPreFrameNew ==
    /\ fnIn = Idle
    /\ \E c \in CharacterInputs, k \in BOOLEAN, v \in DecodeVersions :
        /\ fnIn' = [op |-> "preframe", character |-> c, known |-> k, v |-> v]
        /\ fnOut' = [op |-> "preframe", res |-> PreFrameNew(c, k, v)]
    /\ UNCHANGED driverVars

SpecPreFrame == InitFn /\ [][CallPreFrameNew]_vars

\* SpecSizes: get_event_sizes on a stream that starts with the EventPayloads code,
\* for every table-length byte, in both kinds of build; the stream holds every
\* triple the decoder can ask for, or ends inside the table
SizesStreamLen == 300
SizesShortLen == 20

CallGetEventSizes ==
    /\ fnIn = Idle
    /\ \E L \in 0..MaxU8, rem \in {SizesShortLen, SizesStreamLen}, chk \in BOOLEAN :
        /\ fnIn' = [op |-> "get_event_sizes", L |-> L, rem |-> rem, chk |-> chk]
        /\ fnOut' = [op |-> "get_event_sizes",
                     res |-> get_event_sizes(53, L, Trip(FullHead, <<61, PayloadSize>>), rem, chk)]
    /\ UNCHANGED driverVars

SpecSizes == InitFn /\ [][CallGetEventSizes]_vars

\* SpecOrder: the construction of event_order from every roster of four slots, each
\* of any player type and with a character that is the companion-capable one or not
PlayerTypes == {"Human", "CPU", "Demo", "Empty"}
SlotInputs == {Pl(t, c) : t \in PlayerTypes, c \in {"Fox", "IceClimbers"}}
RosterInputs == {<<a, b, c, d>> : a \in SlotInputs, b \in SlotInputs, c \in SlotInputs, d \in SlotInputs}

CallBuildEventOrder ==
    /\ fnIn = Idle
    /\ \E ps \in RosterInputs :
        /\ fnIn' = [op |-> "event_order", players |-> ps]
        /\ fnOut' = [op |-> "event_order", order |-> BuildEventOrder(ps)]
    /\ UNCHANGED driverVars

SpecOrder == InitFn /\ [][CallBuildEventOrder]_vars

(***************************************************************************)
(* The claims.                                                             *)
(***************************************************************************)
\* the log lines of level error
ErrorLines == {"err_parsing", "err_order", "err_frame", "err_nana_pre"}

\* C1: while the loop reads a run of well-formed frame cycles of a roster with
\* exactly two active participants, neither of them the companion-capable
\* character, it logs no unexpected-ordering error and has counted one frame per
\* start-marker read: N frames once the N-th end-marker is read.
C1_WellFormedCycles ==
    (wf >= 1 /\ NonCompanion1v1(players)) =>
        /\ pc \in {"loop", "done"}
        /\ "err_order" \notin logs
        /\ actual_frames = (wf + 5) \div 6

\* three whole cycles read
C1_ThreeCycles ==
    /\ NonCompanion1v1(players)
    /\ pc = "loop"
    /\ wf = 18
    /\ ev.code = 60
    /\ actual_frames = 3

\* C2: a pre- or post-record whose key differs from the slot at the cursor, with no
\* companion skip and the resynchronization flag clear, in a match with exactly two
\* active participants, sets the flag and logs an unexpected-ordering error; in a
\* match with another number of active participants it sets no flag and logs no
\* such error.
C2_ResyncOnMismatch ==
    [][ (/\ pc = "loop" /\ pc' = "loop"
         /\ remaining' < remaining
         /\ ev'.code \in {55, 56}
         /\ ev'.port <= 3
         /\ InRange(order_idx))
        => LET got == Expected(ev'.port, ev'.nana, event')
               slot == SlotAt(order_idx)
               skip == slot.nana /\ InRange(order_idx + 1) /\ SlotAt(order_idx + 1) = got
               differs == slot # got /\ ~skip
           IN  IF ActiveCount(players) = 2
               THEN (differs /\ ~need_sync) => (need_sync' /\ "err_order" \in logs')
               ELSE need_sync' = need_sync /\ "err_order" \notin logs' ]_vars

\* n - p > 1 and n - p < -10 for 32-bit n and p, without leaving 32 bits
DeltaAbove1(n, p) == n > p /\ n - 1 > p
DeltaBelowMinus10(n, p) == n < p /\ (IF n <= MaxI32 - 10 THEN n + 10 < p ELSE FALSE)

\* C3: a start-marker with index n read after one with index p (-123 at first)
\* logs a frame-irregularity error exactly when n - p > 1 or n - p < -10 and a
\* rollback notice exactly when n - p < 0, and the loop goes on.
C3_FrameDelta ==
    [][ (pc = "loop" /\ remaining' < remaining /\ ev'.code = 58)
        => LET p == fstart_frame_idx
               n == fstart_frame_idx'
           IN  /\ pc' = "loop"
               /\ ("err_frame" \in logs') <=> (DeltaAbove1(n, p) \/ DeltaBelowMinus10(n, p))
               /\ ("debug_rollback" \in logs') <=> (n < p) ]_vars

\* C4: in a run of well-formed frame cycles in which a companion post-record has
\* been left out, no unexpected-ordering error is logged and the resynchronization
\* flag stays clear; after each end-marker the cursor is at the start-marker slot and
\* the start-marker of the next cycle moves it to slot 1.
C4_CompanionPostAbsent ==
    (wf >= 1 /\ gap >= 1) =>
        /\ pc \in {"loop", "done"}
        /\ "err_order" \notin logs
        /\ ~need_sync
        /\ (wf % CycleLen(players) = 0 => order_idx = 0)
        /\ (wf % CycleLen(players) = 1 => order_idx = 1)

\* the start-marker of the cycle after one without the companion post-record
C4_NextCycleStarted ==
    /\ pc = "loop"
    /\ gap >= 1
    /\ wf > CycleLen(players)
    /\ wf % CycleLen(players) = 1
    /\ ev.code = 58
    /\ order_idx = 1

\* C5: a post-record with the companion flag set, for a port whose rostered
\* character is not the companion-capable one, logs an error.
C5_CompanionPostOnOther ==
    (/\ pc = "loop"
     /\ ev.code = 56 /\ ev.nana /\ ev.port <= 3
     /\ CharacterOf(ev.port) # "IceClimbers")
    => logs \cap ErrorLines # {}

\* v >= g in the lexicographic order on (major, minor, build), as one number
VKey(v) == (v.major * 65536) + (v.minor * 256) + v.build
Satisfies(v, g) == VKey(v) >= VKey(g)

\* the length of the longest prefix of gates that v satisfies
LongestPrefix(gates, v) ==
    CHOOSE k \in 0..Len(gates) :
        /\ \A i \in 1..k : Satisfies(v, gates[i].g)
        /\ k < Len(gates) => ~Satisfies(v, gates[k + 1].g)

RECURSIVE PrefixBytes(_, _)
PrefixBytes(gates, k) == IF k = 0 THEN 0 ELSE gates[k].n + PrefixBytes(gates, k - 1)

\* C6: under version v a record decoder makes exactly the optional reads of the
\* longest prefix of its gate list that v satisfies, every later one is absent, and
\* it reads the fixed bytes plus the bytes of that prefix.
C6_GatePrefix ==
    fnIn.op = "decode" =>
        LET gates == GatesOf(fnIn.kind)
            k == LongestPrefix(gates, fnIn.v)
        IN  /\ fnOut.present = [i \in 1..Len(gates) |-> i <= k]
            /\ fnOut.used = BaseOf(fnIn.kind) + PrefixBytes(gates, k)

\* a 3.8.0 post-record: the reads up to the 3.8.0 one, none of the later ones
C6_PostFrame380 ==
    /\ fnIn.op = "decode"
    /\ fnIn.kind = "PostFrame"
    /\ fnIn.v = V(3, 8, 0)
    /\ fnOut.present[12]
    /\ ~fnOut.present[13]
    /\ fnOut.used = 76

\* v < w in the lexicographic order on (major, minor, build)
LexLess(v, w) ==
    \/ v.major < w.major
    \/ v.major = w.major /\ v.minor < w.minor
    \/ v.major = w.major /\ v.minor = w.minor /\ v.build < w.build

\* C7: v.at_least(w) is true exactly when w < v or w = v in the lexicographic
\* order, false when v < w; and "not at_least" is a strict total order: no version
\* is below itself, of two distinct versions exactly one is below the other, and
\* v below w below u gives v below u.
C7_AtLeastOrder ==
    fnIn.op = "at_least" =>
        LET v == fnIn.v
            w == fnIn.w
        IN  /\ fnOut.vw = (LexLess(w, v) \/ w = v)
            /\ LexLess(v, w) => ~fnOut.vw
            /\ v = w => (fnOut.vw /\ fnOut.wv)
            /\ v # w => (fnOut.vw # fnOut.wv)
            /\ (~fnOut.vw /\ ~fnOut.wu) => ~fnOut.vu

\* 1.0.255 is below 1.1.0, which is below 255.0.0
C7_MinorBeforeBuild ==
    /\ fnIn.op = "at_least"
    /\ fnIn.v = V(1, 0, MaxU8)
    /\ fnIn.w = V(1, 1, 0)
    /\ fnIn.u = V(MaxU8, 0, 0)
    /\ ~fnOut.vw /\ fnOut.wv /\ ~fnOut.wu /\ ~fnOut.vu

\* C8: a read beyond the end of the buffer or of an event's window ends the
\* validation of the file with an error outcome, not with a crash.
C8_UnderflowIsError == fault = "underflow" => pc = "failed"

\* C9: an event code the loop has no arm for: with an entry in the size table the
\* loop logs a warning, advances by the declared length, leaves the cursor and the
\* resynchronization flag alone and goes on; without an entry the validation ends
\* with an error outcome.
C9_UnknownCode ==
    [][ (pc = "loop" /\ remaining' < remaining /\ ev'.code \in OtherCodes)
        => LET size == event_sizes[event']
           IN  IF size = NoEntry THEN pc' = "failed"
               ELSE IF size > remaining - 1 THEN TRUE
               ELSE /\ pc' = "loop"
                    /\ "warn_unknown_event" \in logs'
                    /\ remaining' = remaining - 1 - size
                    /\ order_idx' = order_idx
                    /\ need_sync' = need_sync ]_vars

\* C10: for a table-length byte L with (L - 1) mod 3 # 0, L = 0 included, the
\* decode fails with a format error and no table; otherwise it reads (L - 1) / 3
\* triples and leaves the stream right after the last one.
C10_TableLength ==
    (fnIn.op = "get_event_sizes" /\ fnIn.rem = SizesStreamLen) =>
        IF (fnIn.L - 1) % 3 # 0
        THEN fnOut.res.out = "err" /\ fnOut.res.map = EmptyMap
        ELSE /\ fnOut.res.out = "ok"
             /\ fnOut.res.ntriples = (fnIn.L - 1) \div 3
             /\ fnOut.res.used = 2 + (3 * ((fnIn.L - 1) \div 3))

(***************************************************************************)
(* C11.  Batch mode: after a file of the batch ends in a fatal error - the *)
(* length error of the size table, or a read past the end of the buffer -  *)
(* every remaining file is still validated: while files remain, the end of *)
(* a file is followed by the validation of the next one.                   *)
(***************************************************************************)
C11_BatchGoesOn ==
    (pc \in {"failed", "crashed", "done"} /\ batch.idx < batch.total) => ENABLED NextFile

\* C11, the part the code keeps: the next file starts from nothing of the previous one
C11_FreshFile ==
    pc = "header" =>
        /\ event_sizes = EmptyMap /\ event_order = << >> /\ order_idx = 0
        /\ ~need_sync /\ actual_frames = 0 /\ frame_count = AsUsize(0)
        /\ remaining = fileLen /\ pos = 0

\* the second file is validated to its end after the first failed on the length byte
C11_AfterLengthErr == pc = "done" /\ batch.idx = 2 /\ batch.prevLenErr

AsSlots(keys) ==
    [i \in 1..Len(keys) |-> Expected(keys[i].port, keys[i].nana, FromRepr(keys[i].code))]

OrderAsStated(ps) ==
    << Expected(0, FALSE, "FrameStart") >>
    \o AsSlots(RecordKeys(ps, 1, 55))
    \o << Expected(0, FALSE, "Item") >>
    \o AsSlots(RecordKeys(ps, 1, 56))
    \o << Expected(0, FALSE, "FrameEnd") >>

C14_OrderAsStated ==
    fnOut.op = "event_order" => fnOut.order = OrderAsStated(fnIn.players)

\* C14, the part the code keeps: the order built differs from the stated one in
\* nothing but the companion flag of post-record slots
C14_OrderButPostFlag ==
    fnOut.op = "event_order" =>
        LET want == OrderAsStated(fnIn.players)
        IN  /\ Len(fnOut.order) = Len(want)
            /\ \A i \in 1..Len(want) :
                \/ fnOut.order[i] = want[i]
                \/ /\ want[i].kind = "PostFrame" /\ want[i].nana
                   /\ fnOut.order[i] = [want[i] EXCEPT !.nana = FALSE]

(***************************************************************************)
(* A step of the loop that reads an event with the given code.             *)
(***************************************************************************)
Reads(code) == pc = "loop" /\ remaining' < remaining /\ ev'.code = code

(***************************************************************************)
(* C15.  A start-marker read while the resynchronization flag is set, or   *)
(* while the slot at the cursor is neither the start-marker slot nor a     *)
(* companion slot, logs the unexpected-ordering error and leaves the       *)
(* cursor at 1 and the flag clear; read with the flag clear and the cursor *)
(* at the start-marker slot it logs no ordering error and leaves the       *)
(* cursor at 1.                                                            *)
(***************************************************************************)
C15_StartMarker ==
    [][(Reads(58) /\ InRange(order_idx))
        => LET slot == SlotAt(order_idx)
           IN  /\ (need_sync \/ (slot.kind # "FrameStart" /\ ~slot.nana))
                     => ("err_order" \in logs' /\ order_idx' = 1 /\ ~need_sync')
               /\ (~need_sync /\ slot.kind = "FrameStart")
                     => ("err_order" \notin logs' /\ order_idx' = 1 /\ ~need_sync')]_vars

\* a start-marker has been read with the cursor at a slot that is neither the
\* start-marker slot nor a companion slot
C15_Resynchronized ==
    /\ pc = "loop"
    /\ ev.code = 58
    /\ "err_order" \in logs
    /\ order_idx = 1
    /\ ~need_sync

(***************************************************************************)
(* C16.  Whatever events were read before, once an end-marker and, right   *)
(* after it, a start-marker have been processed, the cursor is 1 and the   *)
(* resynchronization flag is clear.                                        *)
(***************************************************************************)
C16_FreshFrame ==
    [][(Reads(58) /\ event = "FrameEnd" /\ pc' = "loop")
        => (order_idx' = 1 /\ ~need_sync')]_vars

\* the stream began with events that belong to no frame, then an end-marker, and the
\* first start-marker right after it has been processed
C16_AfterAnomaly ==
    /\ pc = "loop"
    /\ ev.code = 58
    /\ hist.prev_end
    /\ hist.starts = 1
    /\ pos > LoopStartFull + 2 * EventStride
    /\ wf = -1
    /\ order_idx = 1
    /\ ~need_sync

(***************************************************************************)
(* The key of the event a step reads, as the arms build it.                *)
(***************************************************************************)
GotKey == Expected(ev'.port, ev'.nana, FromRepr(ev'.code))

(***************************************************************************)
(* C17.  A pre-record whose key differs from the slot at the cursor, when  *)
(* that slot is a companion slot and the slot after it equals the key,     *)
(* logs no ordering error, leaves the resynchronization flag as it is and  *)
(* moves the cursor on by 2.  Whenever an arm reads the slot after the     *)
(* cursor - the slot at the cursor is a companion slot and differs from    *)
(* the key - that slot exists.                                             *)
(***************************************************************************)
C17_CompanionSkip ==
    [][((Reads(55) \/ Reads(56) \/ Reads(59) \/ Reads(60))
         /\ InRange(order_idx) /\ SlotAt(order_idx).nana /\ SlotAt(order_idx) # GotKey)
        => /\ InRange(order_idx + 1)
           /\ (ev'.code = 55 /\ SlotAt(order_idx + 1) = GotKey)
                 => /\ pc' = "loop"
                    /\ "err_order" \notin logs'
                    /\ need_sync' = need_sync
                    /\ order_idx' = order_idx + 2]_vars

\* the third event of a stream is a pre-record that took the cursor from the
\* companion slot 2 to 4
C17_Skipped ==
    /\ pc = "loop"
    /\ ev.code = 55
    /\ pos = LoopStartFull + 3 * EventStride
    /\ order_idx = 4
    /\ event_order[3].nana
    /\ event_order[4] = Expected(ev.port, ev.nana, "PreFrame")
    /\ "err_order" \notin logs

(***************************************************************************)
(* C18.  An item event read with the cursor at the item slot leaves the    *)
(* cursor where it is.  An item event moves the cursor only when the       *)
(* cursor is at a companion slot directly followed by the item slot, and   *)
(* then by one.                                                            *)
(***************************************************************************)
C18_ItemCursor ==
    [][(Reads(59) /\ InRange(order_idx))
        => /\ pc' = "loop"
           /\ SlotAt(order_idx).kind = "Item" => order_idx' = order_idx
           /\ order_idx' # order_idx
                 => /\ SlotAt(order_idx).nana
                    /\ SlotAt(order_idx + 1).kind = "Item"
                    /\ order_idx' = order_idx + 1]_vars

\* the fourth event of a stream is an item read at the item slot of a roster of two
\* participants without companion
C18_ItemAtItemSlot ==
    /\ pc = "loop"
    /\ ev.code = 59
    /\ NonCompanion1v1(players)
    /\ pos = LoopStartFull + 4 * EventStride
    /\ order_idx = 3
    /\ event_order[4].kind = "Item"

(***************************************************************************)
(* C19.  When the event stream holds a second match-end after the first,   *)
(* the validation of the file logs the duplicate warning for it: a file    *)
(* whose loop has ended with a match-end as the next event of the stream   *)
(* has had the warning logged.                                             *)
(***************************************************************************)
C19_DuplicateWarned ==
    (pc = "done" /\ game_end /\ hist.next = 57) => hist.dup

(***************************************************************************)
(* C20.  The pre-record decoder makes the lookup against the counterpart,  *)
(* when it makes one, with the action-state code it has already read; and  *)
(* for a fixed version it reads the position field at the same offset and  *)
(* the same number of bytes whatever the character and the result of the   *)
(* lookup.                                                                 *)
(***************************************************************************)
C20_SameWindow ==
    fnOut.op = "preframe" =>
        /\ fnOut.res.counterpart \in {0, 1}
        /\ fnOut.res.position_at = PreFrameNew("Fox", TRUE, fnIn.v).position_at
        /\ fnOut.res.used = PreFrameNew("Fox", TRUE, fnIn.v).used

\* C20, the part the code keeps: the window is read the same way for every
\* character but the one with the counterpart, and for that one when the code resolves
C20_SameWindowButCounterpart ==
    (fnOut.op = "preframe" /\ ~(fnIn.character = "Zelda" /\ ~fnIn.known)) =>
        /\ fnOut.res.counterpart = 0
        /\ fnOut.res.position_at = 12
        /\ fnOut.res.used = Consumed("PreFrame", fnIn.v)

(***************************************************************************)
(* C21.  Each time an arm reads the slot at the cursor - the decoder of    *)
(* the start-marker, pre-record, post-record, item or end-marker has       *)
(* returned - the cursor is an index of the expected order.                *)
(***************************************************************************)
C21_CursorInRange ==
    [][((Reads(58) \/ Reads(55) \/ Reads(56) \/ Reads(59) \/ Reads(60))
         /\ ev'.port <= 3
         /\ fault' \notin {"underflow", "unwrap"})
        => InRange(order_idx)]_vars

(***************************************************************************)
(* C22.  While the loop reads a run of well-formed frame cycles of a       *)
(* roster with exactly two active participants, neither of them the        *)
(* companion-capable character, every event it reads equals the slot at    *)
(* the cursor it is compared with.                                         *)
(***************************************************************************)
C22_EventAtItsSlot ==
    [][(/\ pc = "loop" /\ remaining' < remaining
        /\ NonCompanion1v1(players)
        /\ wf >= 0 /\ wf' = wf + 1)
        => (InRange(order_idx) /\ SlotAt(order_idx) = GotKey)]_vars

\* C22, the part the code keeps: the start-marker and the pre-records of such a run
\* are compared with their own slots
C22_UpToItemSlot ==
    [][(/\ pc = "loop" /\ remaining' < remaining
        /\ NonCompanion1v1(players)
        /\ wf >= 0 /\ wf' = wf + 1
        /\ ev'.code \in {58, 55})
        => (InRange(order_idx) /\ SlotAt(order_idx) = GotKey)]_vars

(***************************************************************************)
(* C23.  For every previous and new frame index of 32 bits, a start-marker *)
(* never aborts on the subtraction of the two, and the frame-irregularity  *)
(* error is logged exactly when the difference new - previous, as a        *)
(* number, is above 1 or below -10.                                        *)
(***************************************************************************)
C23_DeltaInRange ==
    [][Reads(58)
        => /\ fault' # "overflow"
           /\ pc' = "loop"
                 => (("err_frame" \in logs')
                       <=> (\/ DeltaAbove1(fstart_frame_idx', fstart_frame_idx)
                            \/ DeltaBelowMinus10(fstart_frame_idx', fstart_frame_idx)))]_vars

\* C23, the part the code keeps: the same for the pairs of indices whose difference
\* is a number of 32 bits
C23_DeltaThatFits ==
    [][(Reads(58) /\ InRange(order_idx)
         /\ ~SubOverflows(fstart_frame_idx', fstart_frame_idx))
        => /\ pc' = "loop"
           /\ ("err_frame" \in logs')
                 <=> (\/ DeltaAbove1(fstart_frame_idx', fstart_frame_idx)
                      \/ DeltaBelowMinus10(fstart_frame_idx', fstart_frame_idx))]_vars

====
